---------------------------- MODULE Spec2Model ----------------------------
(***************************************************************************)
(* unix-fifo-async: NamedPipePath, NamedPipeReader and NamedPipeWriter     *)
(* over one filesystem path.  The handles hold only the path; every read   *)
(* and write call opens the FIFO, transfers and drops its File.  The       *)
(* kernel's FIFO object (reader and writer counts, the open counters a     *)
(* blocked open waits on, the bounded buffer) is part of the state, since  *)
(* the calls of named_pipe.rs are sequences of open/read/write/close on    *)
(* it.  Tasks run fixed programs of calls, as the crate's tests and        *)
(* examples do, and their steps interleave freely.                         *)
(***************************************************************************)
EXTENDS Integers, Sequences, FiniteSets, TLC

\* ------------------------------------------------------------------ bounds
MaxLen == 3        \* longest data sequence of the enumerated writes
PipeCap == 2       \* bytes the pipe buffer holds (smaller than MaxLen)
MaxInodes == 3     \* FIFO objects ever created at the path

Tasks == {"t0", "t1", "t2"}
Inodes == 1..MaxInodes

\* Bytes: an ASCII byte, the lead byte and the continuation byte of a
\* two-byte UTF-8 sequence.
Bytes == {65, 195, 169}

Min(a, b) == IF a < b THEN a ELSE b

SeqsUpTo(S, n) == UNION {[1..k -> S] : k \in 0..n}

Take(s, k) == SubSeq(s, 1, k)
Drop(s, k) == SubSeq(s, k + 1, Len(s))

\* ------------------------------------------------------------------ UTF-8
\* std::str::from_utf8 as read_to_string applies it to the bytes read.
IsCont(b) == b >= 128 /\ b <= 191

RECURSIVE IsUtf8(_)
IsUtf8(s) ==
    IF s = <<>> THEN TRUE
    ELSE LET b == s[1] IN
         IF b < 128 THEN IsUtf8(Drop(s, 1))
         ELSE IF b >= 194 /\ b <= 223
              THEN Len(s) >= 2 /\ IsCont(s[2]) /\ IsUtf8(Drop(s, 2))
         ELSE IF b >= 224 /\ b <= 239
              THEN /\ Len(s) >= 3 /\ IsCont(s[2]) /\ IsCont(s[3])
                   /\ (b = 224 => s[2] >= 160)
                   /\ (b = 237 => s[2] <= 159)
                   /\ IsUtf8(Drop(s, 3))
         ELSE IF b >= 240 /\ b <= 244
              THEN /\ Len(s) >= 4 /\ IsCont(s[2]) /\ IsCont(s[3]) /\ IsCont(s[4])
                   /\ (b = 240 => s[2] >= 144)
                   /\ (b = 244 => s[2] <= 143)
                   /\ IsUtf8(Drop(s, 4))
         ELSE FALSE

\* ---------------------------------------------------------------- results
Ok(v) == [ok |-> TRUE, val |-> v, err |-> "none"]
Err(e) == [ok |-> FALSE, val |-> <<>>, err |-> e]
OkUnit == Ok(<<>>)
\* exists() returns a bool: <<1>> for true, <<0>> for false
OkBool(b) == Ok(IF b THEN <<1>> ELSE <<0>>)

\* ------------------------------------------------------------------ calls
Call(op, str, data, task, count) ==
    [op |-> op, str |-> str, data |-> data, task |-> task, count |-> count]
CExists == Call("exists", FALSE, <<>>, "t0", 0)
CEnsure == Call("ensure_exists", FALSE, <<>>, "t0", 0)
CDelete == Call("delete", FALSE, <<>>, "t0", 0)
CRead == Call("read", FALSE, <<>>, "t0", 0)
CReadString == Call("read", TRUE, <<>>, "t0", 0)
CWrite(d) == Call("write", FALSE, d, "t0", 0)
CWriteStr(d) == Call("write", TRUE, d, "t0", 0)
\* thread::spawn after / join of: wait until task u has returned from n calls
CAfter(u, n) == Call("after", FALSE, <<>>, u, n)
CEnsurePipe == Call("ensure_pipe_exists", FALSE, <<>>, "t0", 0)
COpenRead == Call("open_read", FALSE, <<>>, "t0", 0)
COpenWrite == Call("open_write", FALSE, <<>>, "t0", 0)

VARIABLES
    path,      \* inode the path names, 0 when no entry exists
    nextIno,   \* inodes created so far
    pipe,      \* per inode: the kernel's FIFO object
    prog,      \* per task: the calls it makes, in order
    exists0,   \* whether the path existed initially
    scenario,  \* name of the scenario the tasks run
    handles,   \* per task: the Readers and Writers it has derived so far
    idx,       \* per task: index of its current call
    pc,        \* per task: position inside the current call
    fd,        \* per task: inode of the File the call holds, 0 when none
    snap,      \* per task: open counter value a blocked open waits to change
    rest,      \* per task: bytes write_all still has to write
    acc,       \* per task: bytes read_to_end has accumulated
    ret,       \* per task: the value the call is about to return
    results    \* per task: the values its calls returned, in order

vars == <<path, nextIno, pipe, prog, exists0, scenario, handles, idx, pc, fd, snap, rest, acc, ret, results>>

\* readers, writers: descriptors open for reading and for writing; rcounter,
\* wcounter: opens for reading and for writing so far, which a blocked open
\* waits to see change; buf: the bytes in flight; written: every byte written
\* since the object was allocated (history, read by the properties only)
EmptyPipe == [readers |-> 0, writers |-> 0, rcounter |-> 0, wcounter |-> 0,
              buf |-> <<>>, written |-> <<>>]


\* The kernel frees a FIFO's pipe object, buffered bytes included, when its
\* last descriptor is closed.
Release(p) == IF p.readers + p.writers = 0 THEN EmptyPipe ELSE p

\* --------------------------------------------------------- task bookkeeping
Active(t) == idx[t] <= Len(prog[t])
Cur(t) == prog[t][idx[t]]
At(t, op, where) == Active(t) /\ pc[t] = where /\ Cur(t).op = op
Done(t) == ~Active(t)
AllDone == \A t \in Tasks : Done(t)

\* the call of task t returns r: the task moves on to its next call
Return(t, r) ==
    /\ results' = [results EXCEPT ![t] = Append(@, r)]
    /\ idx' = [idx EXCEPT ![t] = @ + 1]
    /\ pc' = [pc EXCEPT ![t] = "start"]
    /\ fd' = [fd EXCEPT ![t] = 0]
    /\ snap' = [snap EXCEPT ![t] = 0]
    /\ rest' = [rest EXCEPT ![t] = <<>>]
    /\ acc' = [acc EXCEPT ![t] = <<>>]
    /\ ret' = [ret EXCEPT ![t] = OkUnit]

Goto(t, where) == pc' = [pc EXCEPT ![t] = where]

\* ------------------------------------------------------------ lifecycle
\* util::create_pipe(path, None): mkfifo; fails when an entry already exists
create_pipe_result == IF path = 0 THEN OkUnit ELSE Err("AlreadyExists")

\* util::remove_pipe(path): unlink; fails when no entry exists
remove_pipe_result == IF path # 0 THEN OkUnit ELSE Err("NotFound")

\* NamedPipePath::exists
path_exists == path # 0

exists(t) ==
    /\ At(t, "exists", "start")
    /\ Return(t, OkBool(path_exists))
    /\ UNCHANGED <<path, nextIno, pipe, prog, exists0, scenario, handles>>

\* faulty variants of the existence check of ensure_exists
ensure_always_creates == TRUE

ensure_never_creates == FALSE

\* NamedPipePath::ensure_exists, line 26: `if !self.exists()`
ensure_exists_creates == ~path_exists

ensure_exists(t) ==
    /\ At(t, "ensure_exists", "start")
    /\ IF ensure_exists_creates
       THEN /\ Goto(t, "create_pipe")
            /\ UNCHANGED <<results, idx, fd, snap, rest, acc, ret>>
       ELSE Return(t, OkUnit)
    /\ UNCHANGED <<path, nextIno, pipe, prog, exists0, scenario, handles>>

\* NamedPipePath::ensure_exists, line 27: the creation call, a second step
create_pipe(t) ==
    /\ At(t, "ensure_exists", "create_pipe")
    /\ (path = 0 => nextIno < MaxInodes)
    /\ path' = IF path = 0 THEN nextIno + 1 ELSE path
    /\ nextIno' = IF path = 0 THEN nextIno + 1 ELSE nextIno
    /\ Return(t, create_pipe_result)
    /\ UNCHANGED <<pipe, prog, exists0, scenario, handles>>

\* Reader / Writer ensure_pipe_exists: delegates to the ensure_exists of the
\* binding of the handle's path and gives the handle back
ensure_pipe_exists(t) ==
    /\ At(t, "ensure_pipe_exists", "start")
    /\ IF ensure_exists_creates
       THEN /\ Goto(t, "create_pipe")
            /\ UNCHANGED <<results, idx, fd, snap, rest, acc, ret>>
       ELSE Return(t, OkUnit)
    /\ UNCHANGED <<path, nextIno, pipe, prog, exists0, scenario, handles>>

\* the creation call of the delegated ensure_exists
ensure_pipe_exists_create(t) ==
    /\ At(t, "ensure_pipe_exists", "create_pipe")
    /\ (path = 0 => nextIno < MaxInodes)
    /\ path' = IF path = 0 THEN nextIno + 1 ELSE path
    /\ nextIno' = IF path = 0 THEN nextIno + 1 ELSE nextIno
    /\ Return(t, create_pipe_result)
    /\ UNCHANGED <<pipe, prog, exists0, scenario, handles>>

\* faulty variant of the existence check of delete
delete_always_removes == TRUE

\* faulty variant of the existence check of delete: the test inverted
delete_removes_when_absent == ~path_exists

\* NamedPipePath::delete, line 34: `if self.path.exists()`
delete_removes == path_exists

delete(t) ==
    /\ At(t, "delete", "start")
    /\ IF delete_removes
       THEN /\ Goto(t, "remove_pipe")
            /\ UNCHANGED <<results, idx, fd, snap, rest, acc, ret>>
       ELSE Return(t, OkUnit)
    /\ UNCHANGED <<path, nextIno, pipe, prog, exists0, scenario, handles>>

\* faulty variant of remove_pipe: the unlink waits until no call holds the
\* FIFO open
remove_pipe_synchronized(t) ==
    /\ At(t, "delete", "remove_pipe")
    /\ \A u \in Tasks : fd[u] = 0
    /\ path' = 0
    /\ Return(t, remove_pipe_result)
    /\ UNCHANGED <<nextIno, pipe, prog, exists0, scenario, handles>>

\* NamedPipePath::delete, line 35: the unlink, a second step
remove_pipe(t) ==
    /\ At(t, "delete", "remove_pipe")
    /\ path' = 0
    /\ Return(t, remove_pipe_result)
    /\ UNCHANGED <<nextIno, pipe, prog, exists0, scenario, handles>>

\* thread::spawn / join ordering of the tests
after(t) ==
    /\ At(t, "after", "start")
    /\ idx[Cur(t).task] > Cur(t).count
    /\ Return(t, OkUnit)
    /\ UNCHANGED <<path, nextIno, pipe, prog, exists0, scenario, handles>>

\* ---------------------------------------------------------------- handles
\* faulty variant of from_path_result: from_path opens the File it is to hold
from_path_opening == IF path = 0 THEN Err("NotFound") ELSE OkUnit

\* NamedPipeReader::from_path / NamedPipeWriter::from_path: `Ok(Self { path })`
from_path_result == OkUnit

\* NamedPipePath::open_read: clones the path into a new Reader
open_read(t) ==
    /\ At(t, "open_read", "start")
    /\ handles' = [handles EXCEPT ![t].readers = @ + 1]
    /\ Return(t, from_path_result)
    /\ UNCHANGED <<path, nextIno, pipe, prog, exists0, scenario>>

\* NamedPipePath::open_write: clones the path into a new Writer
open_write(t) ==
    /\ At(t, "open_write", "start")
    /\ handles' = [handles EXCEPT ![t].writers = @ + 1]
    /\ Return(t, from_path_result)
    /\ UNCHANGED <<path, nextIno, pipe, prog, exists0, scenario>>

\* ------------------------------------------------------------------- I/O
\* faulty variant of open_absent_path: an open with create(true) makes an entry
open_creates_path == nextIno + 1

\* what an open of an absent path returns: File::open and
\* OpenOptions::new().write(true).create(false).open never create the entry
open_absent_result == Err("NotFound")

open_absent_path == path

\* faulty variants of the blocking opens: an open that returns at once
reader_never_waits(p) == FALSE

writer_never_waits(p) == FALSE

\* A blocking open of a FIFO for reading waits while no writer holds it open,
\* an open for writing while no reader does (the opener itself is already
\* counted while it waits).
reader_must_wait(p) == p.writers = 0

writer_must_wait(p) == p.readers = 0

\* NamedPipeReader::read / read_string: `File::open(&self.path).await?`
read_open(t) ==
    /\ At(t, "read", "start")
    /\ IF path = 0
       THEN /\ Return(t, open_absent_result)
            /\ path' = open_absent_path
            /\ UNCHANGED pipe
       ELSE LET p == pipe[path]
                q == [p EXCEPT !.readers = @ + 1, !.rcounter = @ + 1] IN
            /\ pipe' = [pipe EXCEPT ![path] = q]
            /\ fd' = [fd EXCEPT ![t] = path]
            /\ snap' = [snap EXCEPT ![t] = p.wcounter]
            /\ Goto(t, IF reader_must_wait(p) THEN "open_wait" ELSE "transfer")
            /\ UNCHANGED <<path, results, idx, rest, acc, ret>>
    /\ UNCHANGED <<nextIno, prog, exists0, scenario, handles>>

\* the blocked open returns once a writer has opened the same FIFO object
read_open_wake(t) ==
    /\ At(t, "read", "open_wait")
    /\ pipe[fd[t]].wcounter # snap[t]
    /\ Goto(t, "transfer")
    /\ UNCHANGED <<path, nextIno, pipe, prog, exists0, scenario, handles, idx, fd, snap, rest, acc,
                   ret, results>>

\* one read(2) of read_to_end / read_to_string that returns k > 0 bytes
read_chunk(t) ==
    /\ At(t, "read", "transfer")
    /\ LET p == pipe[fd[t]] IN
       /\ p.buf # <<>>
       /\ \E k \in 1..Len(p.buf) :
            /\ acc' = [acc EXCEPT ![t] = @ \o Take(p.buf, k)]
            /\ pipe' = [pipe EXCEPT ![fd[t]].buf = Drop(p.buf, k)]
    /\ UNCHANGED <<path, nextIno, prog, exists0, scenario, handles, idx, pc, fd, snap, rest, ret,
                   results>>

\* faulty variant of at_eof: an empty buffer taken for the end of the stream
at_eof_when_empty(p) == p.buf = <<>>

\* read(2) returns 0: the buffer is empty and no writer holds the FIFO open
at_eof(p) == p.buf = <<>> /\ p.writers = 0

\* faulty variant of read_result: read_string decodes without validating
read_result_unchecked(str, bytes) == Ok(bytes)

\* what read / read_string return for the accumulated bytes
read_result(str, bytes) ==
    IF str /\ ~IsUtf8(bytes) THEN Err("InvalidData") ELSE Ok(bytes)

read_eof(t) ==
    /\ At(t, "read", "transfer")
    /\ at_eof(pipe[fd[t]])
    /\ ret' = [ret EXCEPT ![t] = read_result(Cur(t).str, acc[t])]
    /\ Goto(t, "drop")
    /\ UNCHANGED <<path, nextIno, pipe, prog, exists0, scenario, handles, idx, fd, snap, rest, acc,
                   results>>

\* faulty variant of read_closed: the handle keeps its File open across calls
read_retained(p) == p

\* the reader's File after its drop at the end of the call
read_closed(p) == Release([p EXCEPT !.readers = @ - 1])

\* `handle` goes out of scope: the descriptor is closed, the call returns
read_drop(t) ==
    /\ At(t, "read", "drop")
    /\ pipe' = [pipe EXCEPT ![fd[t]] = read_closed(@)]
    /\ Return(t, ret[t])
    /\ UNCHANGED <<path, nextIno, prog, exists0, scenario, handles>>

\* NamedPipeWriter::open via write / write_str
write_open(t) ==
    /\ At(t, "write", "start")
    /\ IF path = 0
       THEN /\ Return(t, open_absent_result)
            /\ path' = open_absent_path
            /\ UNCHANGED pipe
       ELSE LET p == pipe[path]
                q == [p EXCEPT !.writers = @ + 1, !.wcounter = @ + 1] IN
            /\ pipe' = [pipe EXCEPT ![path] = q]
            /\ fd' = [fd EXCEPT ![t] = path]
            /\ snap' = [snap EXCEPT ![t] = p.rcounter]
            /\ rest' = [rest EXCEPT ![t] = Cur(t).data]
            /\ Goto(t, IF writer_must_wait(p) THEN "open_wait" ELSE "transfer")
            /\ UNCHANGED <<path, results, idx, acc, ret>>
    /\ UNCHANGED <<nextIno, prog, exists0, scenario, handles>>

\* faulty variant of write_open_wake: the blocked open returns once a reader
\* holds whatever FIFO the path names now
write_open_wake_by_path(t) ==
    /\ At(t, "write", "open_wait")
    /\ path # 0 /\ pipe[path].readers > 0
    /\ Goto(t, "transfer")
    /\ UNCHANGED <<path, nextIno, pipe, prog, exists0, scenario, handles, idx, fd, snap, rest, acc,
                   ret, results>>

\* the blocked open returns once a reader has opened the same FIFO object
write_open_wake(t) ==
    /\ At(t, "write", "open_wait")
    /\ pipe[fd[t]].rcounter # snap[t]
    /\ Goto(t, "transfer")
    /\ UNCHANGED <<path, nextIno, pipe, prog, exists0, scenario, handles, idx, fd, snap, rest, acc,
                   ret, results>>

\* faulty variant of write_all: a single write(2), its short count ignored
write_once(t) ==
    /\ At(t, "write", "transfer")
    /\ LET p == pipe[fd[t]]
           space == PipeCap - Len(p.buf) IN
       IF rest[t] = <<>>
       THEN /\ ret' = [ret EXCEPT ![t] = OkUnit]
            /\ Goto(t, "drop")
            /\ UNCHANGED <<pipe, rest>>
       ELSE IF p.readers = 0
       THEN /\ ret' = [ret EXCEPT ![t] = Err("BrokenPipe")]
            /\ Goto(t, "drop")
            /\ UNCHANGED <<pipe, rest>>
       ELSE /\ space > 0
            /\ \E k \in 1..Min(Len(rest[t]), space) :
                 /\ pipe' = [pipe EXCEPT ![fd[t]].buf = @ \o Take(rest[t], k),
                                         ![fd[t]].written = @ \o Take(rest[t], k)]
                 /\ rest' = [rest EXCEPT ![t] = Drop(@, k)]
            /\ ret' = [ret EXCEPT ![t] = OkUnit]
            /\ Goto(t, "drop")
    /\ UNCHANGED <<path, nextIno, prog, exists0, scenario, handles, idx, fd, snap, acc, results>>

\* faulty variant of write_all: after a short write(2) the next one starts
\* again at the first byte of the data
write_all_restarting(t) ==
    /\ At(t, "write", "transfer")
    /\ LET p == pipe[fd[t]]
           space == PipeCap - Len(p.buf) IN
       IF rest[t] = <<>>
       THEN /\ ret' = [ret EXCEPT ![t] = OkUnit]
            /\ Goto(t, "drop")
            /\ UNCHANGED <<pipe, rest>>
       ELSE IF p.readers = 0
       THEN /\ ret' = [ret EXCEPT ![t] = Err("BrokenPipe")]
            /\ Goto(t, "drop")
            /\ UNCHANGED <<pipe, rest>>
       ELSE /\ space > 0
            /\ \E k \in 1..Min(Len(rest[t]), space) :
                 /\ pipe' = [pipe EXCEPT ![fd[t]].buf = @ \o Take(Cur(t).data, k),
                                         ![fd[t]].written = @ \o Take(Cur(t).data, k)]
                 /\ rest' = [rest EXCEPT ![t] = Drop(@, k)]
            /\ UNCHANGED <<pc, ret>>
    /\ UNCHANGED <<path, nextIno, prog, exists0, scenario, handles, idx, fd, snap, acc, results>>

\* write_all: done when nothing is left, fails with EPIPE when no reader holds
\* the FIFO open, else one write(2) moves k > 0 bytes into the free space
write_all(t) ==
    /\ At(t, "write", "transfer")
    /\ LET p == pipe[fd[t]]
           space == PipeCap - Len(p.buf) IN
       IF rest[t] = <<>>
       THEN /\ ret' = [ret EXCEPT ![t] = OkUnit]
            /\ Goto(t, "drop")
            /\ UNCHANGED <<pipe, rest>>
       ELSE IF p.readers = 0
       THEN /\ ret' = [ret EXCEPT ![t] = Err("BrokenPipe")]
            /\ Goto(t, "drop")
            /\ UNCHANGED <<pipe, rest>>
       ELSE /\ space > 0
            /\ \E k \in 1..Min(Len(rest[t]), space) :
                 /\ pipe' = [pipe EXCEPT ![fd[t]].buf = @ \o Take(rest[t], k),
                                         ![fd[t]].written = @ \o Take(rest[t], k)]
                 /\ rest' = [rest EXCEPT ![t] = Drop(@, k)]
            /\ UNCHANGED <<pc, ret>>
    /\ UNCHANGED <<path, nextIno, prog, exists0, scenario, handles, idx, fd, snap, acc, results>>

\* faulty variant of write_closed: the handle keeps its File open across calls
write_retained(p) == p

\* the writer's File after its drop at the end of the call
write_closed(p) == Release([p EXCEPT !.writers = @ - 1])

write_drop(t) ==
    /\ At(t, "write", "drop")
    /\ pipe' = [pipe EXCEPT ![fd[t]] = write_closed(@)]
    /\ Return(t, ret[t])
    /\ UNCHANGED <<path, nextIno, prog, exists0, scenario, handles>>

\* -------------------------------------------------------------- scenarios
Data == SeqsUpTo(Bytes, MaxLen)
Utf8Data == {d \in Data : IsUtf8(d)}

\* "first" and "second" as bytes
First == <<102, 105, 114, 115, 116>>
Second == <<115, 101, 99, 111, 110, 100>>

Progs(p0, p1, p2) ==
    [t \in Tasks |-> IF t = "t0" THEN p0 ELSE IF t = "t1" THEN p1 ELSE p2]

Scenario(name, pre, p0, p1, p2) ==
    [name |-> name, pre |-> pre, prog |-> Progs(p0, p1, p2)]

\* the write and read calls paired in a round trip
WriteCalls(d) == {CWrite(d)} \cup (IF IsUtf8(d) THEN {CWriteStr(d)} ELSE {})
ReadCalls == {CRead, CReadString}

\* tests::send_and_receive_threaded / send_and_receive_async and the crate
\* example: ensure_exists, a writer and a reader task, join both, delete
PairScenarios ==
    {Scenario("pair", pre,
              <<CEnsure, CAfter("t1", 2), CAfter("t2", 2), CDelete, CExists>>,
              <<CAfter("t0", 1), w>>,
              <<CAfter("t0", 1), r>>) :
        pre \in BOOLEAN, w \in UNION {WriteCalls(d) : d \in Data}, r \in ReadCalls}

\* two write calls in sequence against two read_string calls in sequence
SessionScenarios ==
    {Scenario("session", TRUE, <<>>,
              <<CWriteStr(First), CWriteStr(Second)>>,
              <<CReadString, CReadString>>)}

\* the same, the second write call issued once the first read has returned
SessionSyncScenarios ==
    {Scenario("session_sync", TRUE, <<>>,
              <<CWriteStr(First), CAfter("t2", 1), CWriteStr(Second)>>,
              <<CReadString, CReadString>>)}

\* lifecycle calls of one binding, in sequence
LifecycleScenarios ==
    {Scenario("lifecycle", pre, <<c1, CExists, c2, CExists>>, <<>>, <<>>) :
        pre \in BOOLEAN, c1 \in {CEnsure, CDelete}, c2 \in {CEnsure, CDelete}}

\* two bindings of the same path calling ensure_exists concurrently
EnsureRaceScenarios ==
    {Scenario("ensure_race", pre, <<CEnsure>>, <<CEnsure>>,
              <<CAfter("t0", 1), CAfter("t1", 1), CExists>>) :
        pre \in BOOLEAN}

\* a write and a read call racing with lifecycle calls on the same path
MixedData == {<<>>, <<65>>, <<195, 169>>, <<169, 65>>, <<65, 195, 169>>}

MixedScenarios ==
    {Scenario("mixed", pre, p0, <<CWrite(d)>>, <<r>>) :
        pre \in BOOLEAN,
        p0 \in {<<>>, <<CDelete>>, <<CEnsure>>, <<CEnsure, CDelete>>,
                <<CDelete, CEnsure>>},
        d \in MixedData, r \in ReadCalls}

\* the binding deriving Readers and Writers (tests, lines 160-161) while a
\* write and a read call run, the path absent or present
HandleScenarios ==
    {Scenario("handles", pre,
              <<COpenWrite, COpenRead, COpenRead, COpenWrite, CExists>>,
              <<CWrite(d)>>, p2) :
        pre \in BOOLEAN, d \in {<<>>, <<65, 195>>}, p2 \in {<<>>, <<CRead>>}}

\* examples write_repeat and read_print_repeat side by side: each ensures
\* the FIFO through its handle, then writes or reads
HandleEnsureScenarios ==
    {Scenario("handle_ensure", pre, <<>>,
              <<CEnsurePipe, CWriteStr(d)>>, <<CEnsurePipe, CReadString>>) :
        pre \in BOOLEAN, d \in {<<>>, <<65>>, <<65, 195, 169>>}}

\* examples write_repeat and read_print_repeat: a sequence of write calls on
\* one Writer against a sequence of read calls on one Reader
ExchangeData ==
    {<<a, b, c>> : a \in {<<65>>, <<65, 65, 65>>}, b \in {<<195>>, <<195, 169>>},
                   c \in {<<169, 65>>}}

ExchangeScenarios ==
    {Scenario("exchange", TRUE, <<>>,
              <<CWrite(d[1]), CWrite(d[2]), CWrite(d[3])>>,
              <<CRead, CRead, CRead>>) : d \in ExchangeData}

\* the same, each write call issued once the read call before it has returned
ExchangeSyncScenarios ==
    {Scenario("exchange_sync", TRUE, <<>>,
              <<CWrite(d[1]), CAfter("t2", 1), CWrite(d[2]), CAfter("t2", 2),
                CWrite(d[3])>>,
              <<CRead, CRead, CRead>>) : d \in ExchangeData}

\* two Writers racing their write calls against one read call
TwoWritersScenarios ==
    {Scenario("two_writers", TRUE, <<CWrite(a)>>, <<CWrite(b)>>, <<CRead>>) :
        a \in {<<65>>, <<65, 195>>, <<65, 65, 65>>},
        b \in {<<169>>, <<195, 169>>}}

\* two Readers of one path racing their read calls against one write call
TwoReadersScenarios ==
    {Scenario("two_readers", TRUE, <<CRead>>, <<CWrite(d)>>, <<CRead>>) :
        d \in {<<>>, <<65>>, <<65, 195, 169>>}}

\* the path deleted and created again while the call of t1 may be blocked in
\* open on the first FIFO; a write and a read call started after that
RecreateScenarios ==
    {Scenario("recreate", TRUE, <<CDelete, CEnsure, c0>>, <<c1>>,
              <<CAfter("t0", 2), c2>>) :
        c0 \in {CRead}, c1 \in {CWrite(<<65>>)},
        c2 \in {CWrite(<<169>>), CWrite(<<195, 169>>)}}
    \cup
    {Scenario("recreate", TRUE, <<CDelete, CEnsure, c0>>, <<c1>>,
              <<CAfter("t0", 2), c2>>) :
        c0 \in {CWrite(<<169>>), CWrite(<<195, 169>>)}, c1 \in {CRead},
        c2 \in {CRead}}

\* two bindings of one path deleting it at the same time, a third asking
\* whether it exists once both have returned
DeleteRaceScenarios ==
    {Scenario("delete_race", pre, <<CDelete>>, <<CDelete>>,
              <<CAfter("t0", 1), CAfter("t1", 1), CExists>>) : pre \in BOOLEAN}

Scenarios ==
    DeleteRaceScenarios \cup RecreateScenarios \cup TwoReadersScenarios \cup TwoWritersScenarios \cup ExchangeScenarios \cup ExchangeSyncScenarios \cup HandleScenarios \cup HandleEnsureScenarios \cup PairScenarios \cup SessionScenarios \cup SessionSyncScenarios
        \cup LifecycleScenarios
        \cup EnsureRaceScenarios \cup MixedScenarios

Init ==
    \E sc \in Scenarios :
        /\ scenario = sc.name
        /\ exists0 = sc.pre
        /\ prog = sc.prog
        /\ path = IF sc.pre THEN 1 ELSE 0
        /\ nextIno = IF sc.pre THEN 1 ELSE 0
        /\ pipe = [i \in Inodes |-> EmptyPipe]
        /\ idx = [t \in Tasks |-> 1]
        /\ pc = [t \in Tasks |-> "start"]
        /\ fd = [t \in Tasks |-> 0]
        /\ snap = [t \in Tasks |-> 0]
        /\ rest = [t \in Tasks |-> <<>>]
        /\ acc = [t \in Tasks |-> <<>>]
        /\ ret = [t \in Tasks |-> OkUnit]
        /\ results = [t \in Tasks |-> <<>>]
        /\ handles = [t \in Tasks |-> [readers |-> 0, writers |-> 0]]

Step(t) ==
    \/ exists(t)
    \/ ensure_exists(t)
    \/ create_pipe(t)
    \/ delete(t)
    \/ remove_pipe(t)
    \/ ensure_pipe_exists(t)
    \/ ensure_pipe_exists_create(t)
    \/ after(t)
    \/ open_read(t)
    \/ open_write(t)
    \/ read_open(t)
    \/ read_open_wake(t)
    \/ read_chunk(t)
    \/ read_eof(t)
    \/ read_drop(t)
    \/ write_open(t)
    \/ write_open_wake(t)
    \/ write_all(t)
    \/ write_drop(t)

Next == \E t \in Tasks : Step(t)

Spec == Init /\ [][Next]_vars

\* every task that can take a step eventually takes one: OS threads and
\* async-std tasks are scheduled fairly, and the kernel wakes blocked calls
FairSpec == Spec /\ \A t \in Tasks : WF_vars(Step(t))

\* ------------------------------------------------------------ properties
HasDelete(p) == \E i \in 1..Len(p) : p[i].op = "delete"

\* the last call of a task's program and what it returned
LastCall(t) == prog[t][Len(prog[t])]
LastResult(t) == results[t][Len(prog[t])]

\* one write call and one read call on the same existing FIFO, nobody else
\* opening it, the path not deleted while they run
RoundTripCase ==
    \/ scenario = "pair"
    \/ scenario = "mixed" /\ exists0 /\ ~HasDelete(prog["t0"])

\* C1: round trip. When one write(B)/write_str(B) call and one
\* read()/read_string() call run concurrently on the same existing FIFO with
\* no other opener, the read call returns exactly B (for read_string: when B
\* is valid UTF-8), whatever the interleaving, B empty or longer than the
\* pipe buffer included.
C1_RoundTrip ==
    (RoundTripCase /\ Done("t2") /\ (LastCall("t2").str => IsUtf8(LastCall("t1").data)))
        => LastResult("t2") = Ok(LastCall("t1").data)

C1_Witness ==
    /\ scenario = "pair" /\ Done("t2") /\ Done("t1")
    /\ Len(LastCall("t1").data) > PipeCap
    /\ LastResult("t2") = Ok(LastCall("t1").data)
    /\ LastResult("t1") = OkUnit

\* C2 as claimed: the first read_string returns "first" and the second
\* returns "second", in every interleaving.
C2_SessionBoundary ==
    scenario = "session" =>
        /\ (Len(results["t2"]) >= 1 => results["t2"][1] = Ok(First))
        /\ (Len(results["t2"]) >= 2 => results["t2"][2] = Ok(Second))

IsPrefix(a, b) == Len(a) <= Len(b) /\ a = Take(b, Len(a))

\* C2 amended: when the second write call is issued only after the first
\* read_string call has returned, the first read_string returns "first" and
\* the second "second".  Without that ordering the first read_string returns
\* "first" or "firstsecond", and the second, when it returns, a prefix of
\* "second".
C2_SessionBoundaryAmended ==
    /\ scenario = "session_sync" =>
        /\ (Len(results["t2"]) >= 1 => results["t2"][1] = Ok(First))
        /\ (Len(results["t2"]) >= 2 => results["t2"][2] = Ok(Second))
    /\ scenario = "session" =>
        /\ (Len(results["t2"]) >= 1 =>
                results["t2"][1] \in {Ok(First), Ok(First \o Second)})
        /\ (Len(results["t2"]) >= 2 =>
                /\ results["t2"][2].ok
                /\ IsPrefix(results["t2"][2].val, Second)
                /\ results["t2"][1] = Ok(First))

C2_Witness ==
    /\ scenario = "session_sync"
    /\ results["t2"] = <<Ok(First), Ok(Second)>>
    /\ Done("t1")

\* a call of task t that holds a descriptor past its open
PastOpen(t, op) == Active(t) /\ Cur(t).op = op /\ pc[t] \in {"transfer", "drop"}

\* C3: blocking until peer, write side.  A write/write_str call on an
\* existing FIFO is past its open (transferring, or about to return Ok or
\* Err) only in states where some read call has opened the same FIFO; while
\* no reader has opened it, the call stays suspended in open and has
\* returned nothing.
C3_WriteBlocksUntilReader ==
    \A t \in Tasks :
        /\ PastOpen(t, "write") => pipe[fd[t]].rcounter > 0
        /\ (Active(t) /\ Cur(t).op = "write" /\ fd[t] # 0
              /\ pipe[fd[t]].rcounter = 0)
             => (pc[t] = "open_wait" /\ Len(results[t]) = idx[t] - 1)

C3_Witness ==
    \E t \in Tasks :
        /\ At(t, "write", "open_wait")
        /\ pipe[fd[t]].rcounter = 0
        /\ pipe[fd[t]].readers = 0
        /\ Len(results[t]) = idx[t] - 1

\* C4: blocking until peer, read side.  A read/read_string call is past its
\* open only in states where some writer has opened the same FIFO, and the
\* step in which it observes end-of-stream is taken only in a state where no
\* writer holds the FIFO open and no written byte is left in the pipe; when
\* it is the only read call that opened the FIFO, its result then holds every
\* byte written so far.
C4_ReadBlocksUntilWriter ==
    /\ [](\A t \in Tasks : PastOpen(t, "read") => pipe[fd[t]].wcounter > 0)
    /\ [][\A t \in Tasks :
            (At(t, "read", "transfer") /\ pc'[t] = "drop") =>
                LET p == pipe[fd[t]] IN
                /\ p.writers = 0
                /\ p.buf = <<>>
                /\ p.wcounter > 0
                /\ (p.rcounter = 1 => acc[t] = p.written)
                /\ ret'[t] = read_result(Cur(t).str, acc[t])]_vars

C4_Witness ==
    \E t \in Tasks :
        /\ At(t, "read", "drop")
        /\ ret[t].ok /\ Len(ret[t].val) > PipeCap
        /\ pipe[fd[t]].writers = 0
        /\ pipe[fd[t]].written = ret[t].val

\* the paired calls of the tests: read_string is given valid UTF-8
PairCase == scenario = "pair" /\ (LastCall("t2").str => IsUtf8(LastCall("t1").data))

PairCompleted ==
    /\ scenario = "pair"
    /\ AllDone
    /\ results["t0"][1] = OkUnit
    /\ LastResult("t1") = OkUnit
    /\ LastResult("t2") = Ok(LastCall("t1").data)
    /\ results["t0"][4] = OkUnit
    /\ results["t0"][5] = OkBool(FALSE)
    /\ path = 0

\* C5: paired completion.  After ensure_exists succeeded, one write call and
\* one read call started concurrently on the path both eventually return Ok
\* under fair scheduling, whichever starts first; the delete issued after
\* both completed returns Ok and exists() is then false.
C5_PairedCompletion == PairCase ~> PairCompleted

C5_Witness == PairCase /\ PairCompleted /\ ~exists0 /\ LastCall("t2").str

\* the task took a step of its current call
Stepped(t) == pc'[t] # pc[t] \/ idx'[t] # idx[t]

\* the call in progress of task t returns r in this step
Returns(t, r) == idx'[t] = idx[t] + 1 /\ results'[t] = Append(results[t], r)

EnsureTwice ==
    scenario = "lifecycle" /\ prog["t0"][1] = CEnsure /\ prog["t0"][3] = CEnsure

\* C6: idempotent creation.  From an absent or a present path, with no
\* concurrent deleter, ensure_exists called twice in sequence leaves the FIFO
\* present after each call; the second call returns Ok without invoking
\* FIFO creation and leaves the filesystem as the first call left it.
C6_IdempotentCreation ==
    EnsureTwice =>
        /\ (idx["t0"] >= 2 => /\ results["t0"][1] = OkUnit
                              /\ path = 1 /\ nextIno = 1)
        /\ (idx["t0"] >= 3 => results["t0"][2] = OkBool(TRUE))
        /\ (idx["t0"] = 3 => pc["t0"] = "start")
        /\ (idx["t0"] >= 4 => results["t0"][3] = OkUnit)
        /\ (idx["t0"] >= 5 => results["t0"][4] = OkBool(TRUE))

C6_Witness ==
    /\ EnsureTwice /\ ~exists0 /\ Done("t0")
    /\ results["t0"] = <<OkUnit, OkBool(TRUE), OkUnit, OkBool(TRUE)>>
    /\ path = 1

\* C7: idempotent deletion.  delete on a path that does not exist returns Ok
\* in one step and changes nothing; delete on an existing path, with no
\* concurrent call on the path, removes it and returns Ok, and the exists()
\* made afterwards returns false.
C7_IdempotentDeletion ==
    /\ [](scenario = "lifecycle" =>
            \A i \in {1, 3} :
                prog["t0"][i] = CDelete =>
                    /\ (idx["t0"] >= i + 1 => results["t0"][i] = OkUnit)
                    /\ (idx["t0"] = i + 1 => path = 0)
                    /\ (idx["t0"] >= i + 2 => results["t0"][i + 1] = OkBool(FALSE)))
    /\ [][\A t \in Tasks :
            (At(t, "delete", "start") /\ path = 0 /\ Stepped(t)) =>
                /\ Returns(t, OkUnit)
                /\ UNCHANGED <<path, nextIno, pipe>>]_vars

C7_Witness ==
    /\ scenario = "lifecycle" /\ prog["t0"][1] = CEnsure /\ prog["t0"][3] = CDelete
    /\ ~exists0 /\ Done("t0")
    /\ results["t0"] = <<OkUnit, OkBool(TRUE), OkUnit, OkBool(FALSE)>>
    /\ path = 0

\* C8: creation race.  When two bindings of the same path call ensure_exists
\* concurrently, the FIFO exists after both returned and was created exactly
\* once (never, when it existed before); at least one call returns Ok and
\* the other Ok or the already-exists error of its creation call, which is
\* handed to the caller as it is.
C8_CreationRace ==
    /\ [](scenario = "ensure_race" =>
            /\ nextIno <= 1
            /\ \A t \in {"t0", "t1"} :
                 Done(t) => /\ path = 1 /\ nextIno = 1
                            /\ results[t][1] \in {OkUnit, Err("AlreadyExists")}
            /\ (Done("t0") /\ Done("t1")) =>
                 (results["t0"][1] = OkUnit \/ results["t1"][1] = OkUnit)
            /\ Done("t2") => results["t2"][3] = OkBool(TRUE))
    /\ [][\A t \in Tasks :
            (At(t, "ensure_exists", "create_pipe") /\ path # 0 /\ Stepped(t)) =>
                /\ Returns(t, Err("AlreadyExists"))
                /\ UNCHANGED <<path, nextIno, pipe>>]_vars

C8_Witness ==
    /\ scenario = "ensure_race" /\ ~exists0 /\ AllDone
    /\ results["t0"][1] = OkUnit
    /\ results["t1"][1] = Err("AlreadyExists")
    /\ results["t2"][3] = OkBool(TRUE)

\* C9: I/O on an absent path.  A read/read_string or write/write_str call
\* whose open finds no entry at the path returns the not-found error in that
\* step: it does not block, is not retried, creates no entry and leaves the
\* filesystem and every pipe as they were.
C9_AbsentPath ==
    [][\A t \in Tasks :
        (Active(t) /\ Cur(t).op \in {"read", "write"} /\ pc[t] = "start"
            /\ path = 0 /\ Stepped(t)) =>
                /\ Returns(t, Err("NotFound"))
                /\ pc'[t] = "start" /\ fd'[t] = 0
                /\ path' = 0
                /\ UNCHANGED <<nextIno, pipe>>]_vars

C9_Witness ==
    /\ scenario = "mixed" /\ exists0 /\ path = 0
    /\ Done("t1") /\ LastResult("t1") = Err("NotFound")
    /\ Done("t2") /\ LastResult("t2") = Err("NotFound")
    /\ \A i \in Inodes : pipe[i] = EmptyPipe

\* the calls in flight that hold a descriptor on inode i
Holders(i, op) ==
    {t \in Tasks : Active(t) /\ Cur(t).op = op /\ fd[t] = i
                     /\ pc[t] \in {"open_wait", "transfer", "drop"}}

\* C10: no retained descriptor.  In every reachable state the descriptors
\* open on a FIFO are exactly those of the read and write calls in flight,
\* one per call; a task whose call has returned, with Ok or with any error,
\* holds none.
C10_NoRetainedDescriptor ==
    /\ \A i \in Inodes :
         /\ pipe[i].readers = Cardinality(Holders(i, "read"))
         /\ pipe[i].writers = Cardinality(Holders(i, "write"))
    /\ \A t \in Tasks :
         (pc[t] \in {"start", "create_pipe", "remove_pipe"} \/ Done(t)) => fd[t] = 0

C10_Witness ==
    /\ scenario = "pair" /\ Done("t2") /\ Done("t1")
    /\ LastCall("t2").op = "read" /\ LastResult("t2") = Err("InvalidData")
    /\ LastCall("t1").op = "write" /\ LastResult("t1") = OkUnit
    /\ \A i \in Inodes : pipe[i].readers = 0 /\ pipe[i].writers = 0

\* C11: handle construction is pure.  An open_read or open_write call returns
\* Ok in its one step, whether or not the FIFO exists and whether or not a
\* peer is blocked on it: it opens no descriptor, leaves the filesystem and
\* every pipe's reader and writer counts as they were, and adds one Reader or
\* Writer to those derived from the binding, which stays usable.
C11_PureConstruction ==
    /\ [][\A t \in Tasks :
            (Active(t) /\ Cur(t).op \in {"open_read", "open_write"} /\ Stepped(t)) =>
                /\ Returns(t, OkUnit)
                /\ fd'[t] = 0
                /\ handles'[t].readers + handles'[t].writers
                     = handles[t].readers + handles[t].writers + 1
                /\ UNCHANGED <<path, nextIno, pipe>>]_vars
    /\ [](scenario = "handles" /\ Done("t0") =>
            /\ handles["t0"] = [readers |-> 2, writers |-> 2]
            /\ results["t0"][5] = OkBool(exists0))

C11_Witness ==
    /\ scenario = "handles" /\ ~exists0 /\ path = 0 /\ Done("t0")
    /\ handles["t0"] = [readers |-> 2, writers |-> 2]
    /\ \A i \in 1..4 : results["t0"][i] = OkUnit

\* a Reader and a Writer derived while a write call is blocked in open
C11_WitnessPeerBlocked ==
    /\ scenario = "handles" /\ exists0 /\ idx["t0"] = 3
    /\ pc["t1"] = "open_wait" /\ pipe[1].writers = 1 /\ pipe[1].readers = 0

\* C12: read_string agrees with read.  For the bytes one write call
\* delivers, read returns Ok of those bytes, and read_string returns Ok of
\* the text with exactly those bytes when they are valid UTF-8 and the
\* decoding error otherwise; either call, the failing read_string included,
\* has consumed every byte and closed its descriptor when it returns.
C12_ReadStringAgrees ==
    /\ [](RoundTripCase /\ Done("t2") =>
            LET d == LastCall("t1").data
                r == LastResult("t2")
            IN  /\ ~LastCall("t2").str => r = Ok(d)
                /\ LastCall("t2").str =>
                     r = IF IsUtf8(d) THEN Ok(d) ELSE Err("InvalidData")
                /\ Done("t1") => \A i \in Inodes : pipe[i] = EmptyPipe)
    /\ [][\A t \in Tasks :
            (At(t, "read", "transfer") /\ Stepped(t) /\ pc'[t] = "drop") =>
                /\ ret'[t] = IF Cur(t).str /\ ~IsUtf8(acc[t])
                               THEN Err("InvalidData") ELSE Ok(acc[t])
                /\ UNCHANGED <<path, nextIno, pipe>>]_vars

C12_Witness ==
    /\ scenario = "mixed" /\ exists0 /\ prog["t0"] = <<>> /\ AllDone
    /\ LastCall("t2").str
    /\ LastCall("t1").data = <<169, 65>>
    /\ LastResult("t2") = Err("InvalidData")
    /\ pipe[1] = EmptyPipe

\* read_string returning the text of a multi-byte character
C12_WitnessText ==
    /\ scenario = "pair" /\ Done("t2") /\ LastCall("t2").str
    /\ LastResult("t2") = Ok(<<65, 195, 169>>)

RECURSIVE Flatten(_)
Flatten(ss) == IF ss = <<>> THEN <<>> ELSE Head(ss) \o Flatten(Tail(ss))

RECURSIVE IsSubseq(_, _)
IsSubseq(a, b) ==
    IF a = <<>> THEN TRUE
    ELSE IF b = <<>> THEN FALSE
    ELSE IF Head(a) = Head(b) THEN IsSubseq(Tail(a), Tail(b))
    ELSE IsSubseq(a, Tail(b))

\* the bytes the completed read calls of the Reader returned, in order
ReadsReturned == Flatten([i \in 1..Len(results["t2"]) |-> results["t2"][i].val])

\* the data of the Writer's write calls, in order
WritesData == Flatten([i \in 1..Len(prog["t1"]) |-> prog["t1"][i].data])

\* the data of the write calls that returned Ok
WritesOk ==
    Flatten([i \in 1..Len(results["t1"]) |->
                IF results["t1"][i].ok THEN prog["t1"][i].data ELSE <<>>])

\* C14 as claimed: the concatenation of the completed reads' results is
\* always a prefix of the concatenation of the writes' data, and when all
\* calls have returned every write that returned Ok has had all its bytes
\* returned by the reads.
C14_RepeatedExchange ==
    scenario = "exchange" =>
        /\ IsPrefix(ReadsReturned, WritesData)
        /\ (Done("t1") /\ Done("t2")) => ReadsReturned = WritesOk

\* C14 amended: nothing is duplicated or reordered: the concatenation of the
\* completed reads' results is always a subsequence of the concatenation of
\* the writes' data.  When each write call is issued only after the read
\* call before it has returned, every write returns Ok, the i-th read
\* returns exactly the data of the i-th write, and the concatenation of the
\* reads' results is a prefix of that of the writes' data.
C14_RepeatedExchangeAmended ==
    /\ scenario = "exchange" => IsSubseq(ReadsReturned, WritesData)
    /\ scenario = "exchange_sync" =>
         /\ IsPrefix(ReadsReturned, WritesData)
         /\ \A i \in 1..Len(results["t1"]) : results["t1"][i] = OkUnit
         /\ \A i \in 1..Len(results["t2"]) :
              results["t2"][i] = Ok(prog["t1"][2 * i - 1].data)
         /\ (Done("t1") /\ Done("t2")) => ReadsReturned = WritesData

C14_Witness ==
    /\ scenario = "exchange_sync" /\ AllDone
    /\ results["t2"] = <<Ok(<<65, 65, 65>>), Ok(<<195, 169>>), Ok(<<169, 65>>)>>

\* the second write returned Ok and none of its bytes reached a read
C14_WitnessLost ==
    /\ scenario = "exchange" /\ Done("t1")
    /\ results["t1"] = <<OkUnit, OkUnit, OkUnit>>
    /\ Len(results["t2"]) = 2
    /\ results["t2"] = <<Ok(<<65>>), Ok(<<169, 65>>)>>

\* all three exchanges completed without the ordering
C14_WitnessUnordered ==
    /\ scenario = "exchange" /\ AllDone
    /\ results["t2"] = <<Ok(<<65, 65, 65>>), Ok(<<195, 169>>), Ok(<<169, 65>>)>>

\* r is an interleaving of a and b: the bytes of each appear in r in their
\* order and r holds nothing else
RECURSIVE IsShuffle(_, _, _)
IsShuffle(r, a, b) ==
    IF r = <<>> THEN a = <<>> /\ b = <<>>
    ELSE \/ a # <<>> /\ Head(a) = Head(r) /\ IsShuffle(Tail(r), Tail(a), b)
         \/ b # <<>> /\ Head(b) = Head(r) /\ IsShuffle(Tail(r), a, Tail(b))

\* C15: racing writers.  When the read call observes end-of-stream after
\* both write calls have opened the FIFO, so that both were open within its
\* session, what it returns is an interleaving of the two writes' data: as
\* long as both together, each write's bytes in their order.
C15_RacingWriters ==
    [][(scenario = "two_writers" /\ At("t2", "read", "transfer")
          /\ pc'["t2"] = "drop" /\ pipe[fd["t2"]].wcounter = 2) =>
            /\ ret'["t2"].ok
            /\ IsShuffle(ret'["t2"].val, prog["t0"][1].data, prog["t1"][1].data)]_vars

C15_Witness ==
    /\ scenario = "two_writers" /\ AllDone
    /\ results["t0"][1] = OkUnit /\ results["t1"][1] = OkUnit
    /\ results["t2"][1] = Ok(<<65, 195, 65, 169, 65>>)

\* the bytes a read call of task t has taken so far, returned or not
TakenBy(t) == IF Done(t) THEN results[t][1].val ELSE acc[t]

\* the bytes taken by the two reads are the first bytes of the data, each
\* byte taken by one read, in order within each
SharedStream ==
    LET d == prog["t1"][1].data
        n == Len(TakenBy("t0")) + Len(TakenBy("t2"))
    IN  n <= Len(d) /\ IsShuffle(Take(d, n), TakenBy("t0"), TakenBy("t2"))

\* C16 as claimed: the two reads partition the written bytes, and once the
\* writer has closed both reads return, so the run never comes to a stop
\* with a read call still in flight.
C16_IndependentReaders ==
    scenario = "two_readers" =>
        /\ SharedStream
        /\ Done("t1") => (Done("t0") /\ Done("t2")) \/ ENABLED Next

\* both read calls have opened the FIFO and the write call has not yet
\* closed its descriptor
BothOpenedBeforeClose ==
    /\ scenario = "two_readers"
    /\ Active("t0") /\ fd["t0"] # 0
    /\ Active("t2") /\ fd["t2"] # 0
    /\ Active("t1")

\* C16 amended: at every moment the bytes the two reads have taken are the
\* first bytes of the data, each taken by exactly one read, in order within
\* each; and when both read calls open the FIFO before the write call
\* closes its descriptor, the write returns Ok, both reads return, and their
\* results are a partition of the whole data.
C16_IndependentReadersAmended ==
    /\ [](scenario = "two_readers" => SharedStream)
    /\ BothOpenedBeforeClose ~>
         (/\ scenario = "two_readers" /\ AllDone
          /\ results["t1"][1] = OkUnit
          /\ results["t0"][1].ok /\ results["t2"][1].ok
          /\ IsShuffle(prog["t1"][1].data,
                       results["t0"][1].val, results["t2"][1].val))

C16_Witness ==
    /\ scenario = "two_readers" /\ AllDone
    /\ results["t0"][1] = Ok(<<65, 169>>)
    /\ results["t2"][1] = Ok(<<195>>)

\* a read call that opened after the writer closed: the other read has
\* returned all the data and this one waits for a writer that never comes
C16_WitnessLateReader ==
    /\ scenario = "two_readers" /\ Done("t1") /\ Done("t0")
    /\ results["t0"][1] = Ok(<<65, 195, 169>>)
    /\ pc["t2"] = "open_wait" /\ ~ENABLED Next

\* a read or write call of task u is blocked in its open step
BlockedInOpen(u) ==
    /\ Active(u) /\ Cur(u).op \in {"read", "write"} /\ pc[u] = "open_wait"
    /\ (Cur(u).op = "read" => pipe[fd[u]].wcounter = snap[u])
    /\ (Cur(u).op = "write" => pipe[fd[u]].rcounter = snap[u])

\* C17: unsynchronized deletion.  Each of delete's two steps, the existence
\* check and the unlink, can be taken whatever the read and write calls in
\* flight are doing.  The unlink of an existing path removes it and returns
\* Ok; no step of delete changes any pipe or any other task's call, so a call
\* blocked in open is blocked on the same FIFO afterwards, neither woken nor
\* failed.
C17_UnsynchronizedDeletion ==
    /\ [](\A t \in Tasks :
            /\ At(t, "delete", "start") => ENABLED delete(t)
            /\ At(t, "delete", "remove_pipe") => ENABLED remove_pipe(t))
    /\ [][\A t \in Tasks :
            (Active(t) /\ Cur(t).op = "delete" /\ Stepped(t)) =>
                /\ (pc[t] = "remove_pipe" /\ path # 0) =>
                     path' = 0 /\ Returns(t, OkUnit)
                /\ pipe' = pipe
                /\ \A u \in Tasks \ {t} :
                     /\ pc'[u] = pc[u] /\ fd'[u] = fd[u] /\ snap'[u] = snap[u]
                     /\ results'[u] = results[u]
                     /\ BlockedInOpen(u) => BlockedInOpen(u)']_vars

C17_Witness ==
    /\ scenario = "mixed" /\ exists0 /\ prog["t0"] = <<CDelete>>
    /\ Done("t0") /\ results["t0"][1] = OkUnit /\ path = 0
    /\ BlockedInOpen("t1") /\ fd["t1"] = 1 /\ pipe[1].writers = 1
    /\ results["t1"] = <<>>

\* the call of t1 holds the first FIFO object, the one the path named before
\* the deletion
OnOriginal == fd["t1"] = 1

\* the read and the write call started after the re-creation, whichever task
\* makes which
LaterRead == IF prog["t0"][3].op = "read" THEN "t0" ELSE "t2"
LaterWrite == IF prog["t0"][3].op = "write" THEN "t0" ELSE "t2"

\* C18: rendezvous by FIFO object.  A call is past its open only when a peer
\* has opened the same FIFO object.  A write or read call that opened the
\* first FIFO stays blocked in open across the deletion and the re-creation,
\* whatever opens the new FIFO at the same path, and no byte ever passes
\* through the first FIFO; the read and the write call started after the
\* re-creation open the new FIFO, and with the earlier call held on the first
\* one the later read returns exactly the later write's data.
C18_RendezvousByObject ==
    scenario = "recreate" =>
        /\ \A t \in Tasks :
             /\ PastOpen(t, "write") => pipe[fd[t]].rcounter > 0
             /\ PastOpen(t, "read") => pipe[fd[t]].wcounter > 0
        /\ OnOriginal => BlockedInOpen("t1") /\ results["t1"] = <<>>
        /\ pipe[1].written = <<>>
        /\ \A t \in {LaterRead, LaterWrite} : fd[t] \in {0, 2}
        /\ (OnOriginal /\ Done(LaterRead)) =>
             /\ LastResult(LaterRead) = Ok(LastCall(LaterWrite).data)
             /\ acc["t1"] = <<>> /\ rest["t1"] = LastCall("t1").data

C18_Witness ==
    /\ scenario = "recreate" /\ path = 2
    /\ prog["t1"] = <<CWrite(<<65>>)>> /\ OnOriginal /\ BlockedInOpen("t1")
    /\ Done("t0") /\ Done("t2")
    /\ LastResult("t0") = Ok(<<195, 169>>) /\ LastResult("t2") = OkUnit

\* the same with a read call held on the first FIFO
C18_WitnessRead ==
    /\ scenario = "recreate" /\ path = 2
    /\ prog["t1"] = <<CRead>> /\ OnOriginal /\ BlockedInOpen("t1")
    /\ Done("t0") /\ Done("t2")
    /\ LastResult("t2") = Ok(<<195, 169>>) /\ LastResult("t0") = OkUnit

\* C19: deletion race.  When two bindings of an existing path call delete
\* concurrently, each returns Ok or the not-found error, at least one of
\* them Ok; once both have returned the path is absent.  The path changes
\* only once, from present to absent, in the one unlink that takes effect; an
\* unlink that finds the path already gone returns not-found and changes
\* nothing.
C19_DeletionRace ==
    /\ [](scenario = "delete_race" /\ exists0 =>
            /\ \A t \in {"t0", "t1"} :
                 Done(t) => results[t][1] \in {OkUnit, Err("NotFound")}
            /\ (Done("t0") /\ Done("t1")) =>
                 /\ path = 0
                 /\ results["t0"][1] = OkUnit \/ results["t1"][1] = OkUnit
            /\ Done("t2") => results["t2"][3] = OkBool(FALSE))
    /\ [][scenario = "delete_race" =>
            /\ path' # path => path = 1 /\ path' = 0
            /\ \A t \in Tasks :
                 (At(t, "delete", "remove_pipe") /\ Stepped(t)) =>
                    IF path # 0
                    THEN Returns(t, OkUnit) /\ path' = 0
                    ELSE Returns(t, Err("NotFound")) /\ path' = 0]_vars

C19_Witness ==
    /\ scenario = "delete_race" /\ exists0 /\ AllDone /\ path = 0
    /\ results["t0"][1] = Err("NotFound")
    /\ results["t1"][1] = OkUnit
    /\ results["t2"][3] = OkBool(FALSE)

\* the second delete found the path already absent at its check
C19_WitnessBothOk ==
    /\ scenario = "delete_race" /\ exists0 /\ AllDone /\ path = 0
    /\ results["t0"][1] = OkUnit /\ results["t1"][1] = OkUnit

=============================================================================
